---- MODULE Spec2Model ----
(***************************************************************************)
(* Model of legged_gym/utils/terrain.py: the Terrain constructor's choice  *)
(* of a population strategy, make_terrain, add_terrain_to_map, the        *)
(* gap_terrain primitive, the block augmentation (add_blocks, add_block)   *)
(* and to_shape.  Each component has its own variables and its own         *)
(* specification; a specification holds the other components' variables    *)
(* at their idle values.                                                    *)
(***************************************************************************)
EXTENDS Integers, Sequences, FiniteSets, TLC

VARIABLES
    \* Terrain.__init__: the configuration record, whether __init__ has
    \* returned, the population strategies it ran and the mesh calls it made
    cfg, constructed, strategies, meshCalls,
    \* make_terrain: cfg.terrain_proportions, self.proportions, the last
    \* make_terrain call and the difficulty and parameters of the one before
    terrain_proportions, proportions, mt, mtPrev,
    \* add_terrain_to_map: the configuration, self.height_field_raw,
    \* self.env_origins, the last call and the number of calls
    mapCfg, height_field_raw, env_origins, lastAdd, nAdds,
    \* gap_terrain: the call's input, the field it left and whether it ran
    gapIn, gapField, gapDone,
    \* add_block: self.vertices, self.triangles and the number of calls
    vertices, triangles, nBlocks,
    \* add_blocks: the mesh's vertices, the bounding box (x0, x1, y0, y1),
    \* num_blocks, the blocks accepted, the last sample with what the loop
    \* did with it, the blocks handed to add_block and the position reached
    blockVertices, box, num_blocks, blocks, sample, placed, blocksPc,
    \* the image-derived strategy: the shape of the image's alpha channel,
    \* what to_shape returned and the position reached
    im, imageField, imagePc

initVars == <<cfg, constructed, strategies, meshCalls>>
makeVars == <<terrain_proportions, proportions, mt, mtPrev>>
mapVars == <<mapCfg, height_field_raw, env_origins, lastAdd, nAdds>>
gapVars == <<gapIn, gapField, gapDone>>
meshVars == <<vertices, triangles, nBlocks>>
blockVars == <<blockVertices, box, num_blocks, blocks, sample, placed, blocksPc>>
imageVars == <<im, imageField, imagePc>>
vars == <<cfg, constructed, strategies, meshCalls, terrain_proportions, proportions,
          mt, mtPrev,
          mapCfg, height_field_raw, env_origins, lastAdd, nAdds,
          gapIn, gapField, gapDone,
          vertices, triangles, nBlocks,
          blockVertices, box, num_blocks, blocks, sample, placed, blocksPc,
          im, imageField, imagePc>>

\* The value of a component's variable while another component runs.
Idle == "idle"

\* No make_terrain call yet.
NoCall == [called |-> FALSE]

Min(S) == CHOOSE m \in S : \A n \in S : m <= n
Max(S) == CHOOSE m \in S : \A n \in S : n <= m

IdleMake ==
    /\ terrain_proportions = Idle
    /\ proportions = Idle
    /\ mt = Idle
    /\ mtPrev = Idle

(***************************************************************************)
(* Terrain.__init__: mesh type, grid shape and the mode flags.             *)
(***************************************************************************)
MaxRows == 2
MaxCols == 2

MeshTypes == {"none", "plane", "heightfield", "trimesh"}

Configs ==
    [mesh_type : MeshTypes, map_path : BOOLEAN, curriculum : BOOLEAN,
     selected : BOOLEAN, num_rows : 1..MaxRows, num_cols : 1..MaxCols,
     num_sub_terrains : {0}]

\* The if / elif chain of lines 80-91, in the order "selected" before
\* "curriculum".
PopulationStrategySelectedFirst(c) ==
    IF c.map_path THEN "image"
    ELSE IF c.selected THEN "selected"
    ELSE IF c.curriculum THEN "curriculum"
    ELSE "random"

\* The if / elif chain of lines 80-91.
PopulationStrategy(c) ==
    IF c.map_path THEN "image"
    ELSE IF c.curriculum THEN "curriculum"
    ELSE IF c.selected THEN "selected"
    ELSE "random"

\* Lines 95-111: the mesh calls made once the heightfield is populated.
MeshCallsOf(c) ==
    IF c.mesh_type = "trimesh"
    THEN IF c.map_path
         THEN <<"convert_heightfield_to_trimesh", "add_blocks">>
         ELSE <<"convert_heightfield_to_trimesh">>
    ELSE <<>>

InitTerrain ==
    /\ cfg \in Configs
    /\ constructed = FALSE
    /\ strategies = <<>>
    /\ meshCalls = <<>>

IdleTerrain ==
    /\ cfg = Idle
    /\ constructed = FALSE
    /\ strategies = <<>>
    /\ meshCalls = <<>>

\* Terrain.__init__, lines 54-111.
Construct ==
    /\ ~constructed
    /\ constructed' = TRUE
    /\ IF cfg.mesh_type \in {"none", "plane"}
       THEN /\ cfg' = cfg
            /\ strategies' = strategies
            /\ meshCalls' = meshCalls
       ELSE /\ cfg' = [cfg EXCEPT !.num_sub_terrains = cfg.num_rows * cfg.num_cols]
            /\ strategies' = Append(strategies, PopulationStrategy(cfg))
            /\ meshCalls' = MeshCallsOf(cfg)
    /\ UNCHANGED <<makeVars, mapVars, gapVars, meshVars, blockVars, imageVars>>


(***************************************************************************)
(* make_terrain.  choice and the thresholds are counted in one unit, the   *)
(* proportions' common denominator; difficulty d stands for d / DiffDen;   *)
(* a parameter p is held as p * 1000 * DiffDen, which is an integer for    *)
(* every coefficient of lines 163-169.                                     *)
(***************************************************************************)
NumProportions == 8
MaxTotal == 3
DiffDen == 4

Thresholds == 0..(NumProportions - 1)

RECURSIVE SumTo(_, _)
\* np.sum(p[: i + 1]), lines 64.
SumTo(p, i) == IF i < 0 THEN 0 ELSE p[i] + SumTo(p, i - 1)

\* Lines 63-66: the prefix sums of cfg.terrain_proportions.
CumulativeProportions(p) == [i \in Thresholds |-> SumTo(p, i)]

ProportionVectors ==
    {p \in [Thresholds -> 0..MaxTotal] : SumTo(p, NumProportions - 1) <= MaxTotal}

\* Lines 163-169 with stepping_stones_size growing with difficulty.
DerivedParametersStonesGrow(d) ==
    [slope |-> 400 * d,
     step_height |-> 50 * DiffDen + 180 * d,
     discrete_obstacles_height |-> 50 * DiffDen + 200 * d,
     stepping_stones_size |-> 1575 * DiffDen + 1500 * d,
     stone_distance |-> IF d = 0 THEN 50 * DiffDen ELSE 100 * DiffDen,
     gap_size |-> 1000 * d,
     pit_depth |-> 1000 * d]

\* Lines 163-169: the parameters derived from difficulty.
DerivedParameters(d) ==
    [slope |-> 400 * d,
     step_height |-> 50 * DiffDen + 180 * d,
     discrete_obstacles_height |-> 50 * DiffDen + 200 * d,
     stepping_stones_size |-> 1575 * DiffDen - 1500 * d,
     stone_distance |-> IF d = 0 THEN 50 * DiffDen ELSE 100 * DiffDen,
     gap_size |-> 1000 * d,
     pit_depth |-> 1000 * d]

Call(branch, generators, args) ==
    [branch |-> branch, generators |-> generators, args |-> args]

\* Lines 170-232 with the third test reading proportions[2] for
\* proportions[3].
TerrainBranchesShortStairs(choice, d, props) ==
    LET par == DerivedParameters(d) IN
    IF choice < props[0] THEN
        <<Call("slope", <<"pyramid_sloped_terrain">>,
               [slope |-> IF 2 * choice < props[0] THEN -par.slope ELSE par.slope])>>
    ELSE IF choice < props[1] THEN
        <<Call("rough_slope", <<"pyramid_sloped_terrain", "random_uniform_terrain">>,
               [slope |-> par.slope])>>
    ELSE IF choice < props[2] THEN
        <<Call("stairs", <<"pyramid_stairs_terrain">>,
               [step_height |-> -par.step_height])>>
    ELSE IF choice < props[4] THEN
        <<Call("discrete_obstacles", <<"discrete_obstacles_terrain">>,
               [height |-> par.discrete_obstacles_height, num_rectangles |-> 20])>>
    ELSE IF choice < props[5] THEN
        <<Call("cell_obstacles", <<"discrete_obstacles_terrain_cells">>,
               [num_rectangles |-> (200 * d) \div DiffDen])>>
    ELSE IF choice < props[6] THEN
        <<Call("stepping_stones", <<"stepping_stones_terrain">>,
               [stone_size |-> par.stepping_stones_size,
                stone_distance |-> par.stone_distance])>>
    ELSE IF choice < props[7] THEN
        <<Call("gap", <<"gap_terrain">>, [gap_size |-> par.gap_size])>>
    ELSE
        <<Call("pit", <<"pit_terrain">>, [depth |-> par.pit_depth])>>

\* Lines 170-232: the if / elif chain, as the sequence of the branches run.
TerrainBranches(choice, d, props) ==
    LET par == DerivedParameters(d) IN
    IF choice < props[0] THEN
        <<Call("slope", <<"pyramid_sloped_terrain">>,
               [slope |-> IF 2 * choice < props[0] THEN -par.slope ELSE par.slope])>>
    ELSE IF choice < props[1] THEN
        <<Call("rough_slope", <<"pyramid_sloped_terrain", "random_uniform_terrain">>,
               [slope |-> par.slope])>>
    ELSE IF choice < props[3] THEN
        <<Call("stairs", <<"pyramid_stairs_terrain">>,
               [step_height |-> IF choice < props[2] THEN -par.step_height
                                ELSE par.step_height])>>
    ELSE IF choice < props[4] THEN
        <<Call("discrete_obstacles", <<"discrete_obstacles_terrain">>,
               [height |-> par.discrete_obstacles_height, num_rectangles |-> 20])>>
    ELSE IF choice < props[5] THEN
        <<Call("cell_obstacles", <<"discrete_obstacles_terrain_cells">>,
               [num_rectangles |-> (200 * d) \div DiffDen])>>
    ELSE IF choice < props[6] THEN
        <<Call("stepping_stones", <<"stepping_stones_terrain">>,
               [stone_size |-> par.stepping_stones_size,
                stone_distance |-> par.stone_distance])>>
    ELSE IF choice < props[7] THEN
        <<Call("gap", <<"gap_terrain">>, [gap_size |-> par.gap_size])>>
    ELSE
        <<Call("pit", <<"pit_terrain">>, [depth |-> par.pit_depth])>>

InitMake ==
    /\ terrain_proportions \in ProportionVectors
    /\ proportions = CumulativeProportions(terrain_proportions)
    /\ mt = NoCall
    /\ mtPrev = NoCall

\* make_terrain(choice, difficulty), lines 155-234.  mtPrev keeps the
\* difficulty and the derived parameters of the call before.
MakeTerrain ==
    /\ \E choice \in 0..MaxTotal, d \in 0..DiffDen :
          /\ mt' = [called |-> TRUE, choice |-> choice, difficulty |-> d,
                    params |-> DerivedParameters(d),
                    branches |-> TerrainBranches(choice, d, proportions)]
          /\ mtPrev' = IF mt.called
                       THEN [called |-> TRUE, difficulty |-> mt.difficulty,
                             params |-> mt.params]
                       ELSE NoCall
    /\ UNCHANGED <<terrain_proportions, proportions>>
    /\ UNCHANGED <<initVars, mapVars, gapVars, meshVars, blockVars, imageVars>>

(***************************************************************************)
(* add_terrain_to_map.  Lengths are counted in ticks, MetreTicks of them   *)
(* to the metre; horizontal_scale is the ticks of one pixel.  An origin's  *)
(* x and y are held doubled, (2 * row + 1) * env_length for                *)
(* (row + 0.5) * env_length; z is the raw maximum times vertical_scale.    *)
(***************************************************************************)
MetreTicks == 2
MaxEnv == 3
MaxBorder == 2
MaxCalls == 2
PeakRaw == 3
VerticalScale == 5

Scales == {1, 2}
GridShapes == {<<1, 1>>, <<1, 2>>, <<2, 1>>}

\* int(a / b) of Python for b > 0: the quotient rounded towards zero.
IntDiv(a, b) == IF a >= 0 THEN a \div b ELSE -((-a) \div b)

MapConfigs ==
    {[env_length |-> l, env_width |-> w, horizontal_scale |-> hs,
      vertical_scale |-> VerticalScale, border_size |-> b,
      num_rows |-> g[1], num_cols |-> g[2]] :
        l \in 1..MaxEnv, w \in 1..MaxEnv, hs \in Scales, b \in 0..MaxBorder,
        g \in GridShapes}

\* Lines 71-77.
WidthPerEnvPixels(c) == IntDiv(c.env_width, c.horizontal_scale)
LengthPerEnvPixels(c) == IntDiv(c.env_length, c.horizontal_scale)
Border(c) == IntDiv(c.border_size, c.horizontal_scale)
TotCols(c) == c.num_cols * WidthPerEnvPixels(c) + 2 * Border(c)
TotRows(c) == c.num_rows * LengthPerEnvPixels(c) + 2 * Border(c)

\* The indices a Python slice lo:hi selects on an axis of n entries: a
\* negative bound counts from the end, and both are clipped to the axis.
SliceBound(k, n) == IF k < 0 THEN (IF k + n < 0 THEN 0 ELSE k + n)
                    ELSE (IF k > n THEN n ELSE k)
PySlice(lo, hi, n) == SliceBound(lo, n)..(SliceBound(hi, n) - 1)

\* terrain_utils.SubTerrain as lines 156-162 construct it: width and length
\* are both width_per_env_pixels.
SubTerrain(c, field) ==
    [width |-> WidthPerEnvPixels(c), length |-> WidthPerEnvPixels(c),
     horizontal_scale |-> c.horizontal_scale, vertical_scale |-> c.vertical_scale,
     height_field_raw |-> field]

TerrainPixels(c) ==
    (0..(WidthPerEnvPixels(c) - 1)) \X (0..(WidthPerEnvPixels(c) - 1))

\* What a generator may leave in a sub-terrain: flat ground, or flat ground
\* with one peak.
FlatField(c) == [px \in TerrainPixels(c) |-> 0]
PeakField(c, at) == [px \in TerrainPixels(c) |-> IF px = at THEN PeakRaw ELSE 0]
SubTerrains(c) ==
    {SubTerrain(c, FlatField(c))}
        \cup {SubTerrain(c, PeakField(c, at)) : at \in TerrainPixels(c)}

\* Lines 240-243 without the border offset.
MapStartNoBorder(c, k, pixels) == k * pixels

\* Lines 240-243: the first pixel of cell k along an axis.
MapStart(c, k, pixels) == Border(c) + k * pixels

\* Line 244: whether NumPy can broadcast the sub-terrain's
\* (width, width) array to the target slice's (rows, cols).
Broadcasts(t, rows, cols) ==
    /\ t.width = rows \/ t.width = 1
    /\ t.length = cols \/ t.length = 1

\* Line 244: the composite heightfield after the slice assignment.
WriteTerrain(c, field, t, row, col) ==
    LET sx == MapStart(c, row, LengthPerEnvPixels(c))
        sy == MapStart(c, col, WidthPerEnvPixels(c))
        xs == PySlice(sx, sx + LengthPerEnvPixels(c), TotRows(c))
        ys == PySlice(sy, sy + WidthPerEnvPixels(c), TotCols(c))
    IN  [px \in DOMAIN field |->
            IF px[1] \in xs /\ px[2] \in ys
            THEN t.height_field_raw[
                    <<IF t.width = 1 THEN 0 ELSE px[1] - sx,
                      IF t.length = 1 THEN 0 ELSE px[2] - sy>>]
            ELSE field[px]]

\* Line 244: the shape of the target slice.
TargetShape(c, row, col) ==
    LET sx == MapStart(c, row, LengthPerEnvPixels(c))
        sy == MapStart(c, col, WidthPerEnvPixels(c))
    IN  <<Cardinality(PySlice(sx, sx + LengthPerEnvPixels(c), TotRows(c))),
          Cardinality(PySlice(sy, sy + WidthPerEnvPixels(c), TotCols(c)))>>

\* Lines 248-251: the bounds of the origin window, in pixels.
WindowLow(len, t) == IntDiv(len - 2 * MetreTicks, 2 * t.horizontal_scale)
WindowHigh(len, t) == IntDiv(len + 2 * MetreTicks, 2 * t.horizontal_scale)

\* Line 253: the pixels terrain.height_field_raw[x1:x2, y1:y2] selects.
OriginWindow(c, t) ==
    PySlice(WindowLow(c.env_length, t), WindowHigh(c.env_length, t), t.width)
        \X PySlice(WindowLow(c.env_width, t), WindowHigh(c.env_width, t), t.length)

\* Lines 246-255: the origin stored for the cell.
EnvOrigin(c, t, row, col) ==
    <<(2 * row + 1) * c.env_length, (2 * col + 1) * c.env_width,
      Max({t.height_field_raw[px] : px \in OriginWindow(c, t)}) * t.vertical_scale>>

NoAdd == [outcome |-> "none"]

\* The state lines 56-79 leave in a procedural mode.
InitMap ==
    /\ mapCfg \in MapConfigs
    /\ height_field_raw =
          [px \in (0..(TotRows(mapCfg) - 1)) \X (0..(TotCols(mapCfg) - 1)) |-> 0]
    /\ env_origins =
          [cell \in (0..(mapCfg.num_rows - 1)) \X (0..(mapCfg.num_cols - 1)) |->
              <<0, 0, 0>>]
    /\ lastAdd = NoAdd
    /\ nAdds = 0

IdleMap ==
    /\ mapCfg = Idle
    /\ height_field_raw = Idle
    /\ env_origins = Idle
    /\ lastAdd = Idle
    /\ nAdds = 0

\* add_terrain_to_map(terrain, row, col), lines 236-255.  The assignment of
\* line 244 raises ValueError when the shapes do not broadcast, and np.max
\* of line 253 raises it on an empty window, after the write.
AddTerrainToMap ==
    /\ nAdds < MaxCalls
    /\ nAdds' = nAdds + 1
    /\ \E t \in SubTerrains(mapCfg), row \in 0..(mapCfg.num_rows - 1),
          col \in 0..(mapCfg.num_cols - 1) :
          LET shape == TargetShape(mapCfg, row, col) IN
          IF ~Broadcasts(t, shape[1], shape[2])
          THEN /\ lastAdd' = [outcome |-> "ValueError", terrain |-> t,
                              row |-> row, col |-> col]
               /\ UNCHANGED <<height_field_raw, env_origins>>
          ELSE /\ height_field_raw' = WriteTerrain(mapCfg, height_field_raw, t, row, col)
               /\ IF OriginWindow(mapCfg, t) = {}
                  THEN /\ lastAdd' = [outcome |-> "ValueError", terrain |-> t,
                                      row |-> row, col |-> col]
                       /\ UNCHANGED env_origins
                  ELSE /\ lastAdd' = [outcome |-> "ok", terrain |-> t,
                                      row |-> row, col |-> col]
                       /\ env_origins' =
                             [env_origins EXCEPT ![<<row, col>>] =
                                 EnvOrigin(mapCfg, t, row, col)]
    /\ UNCHANGED mapCfg
    /\ UNCHANGED <<initVars, makeVars, gapVars, meshVars, blockVars, imageVars>>

(***************************************************************************)
(* gap_terrain.  gap_size, platform_size and horizontal_scale are counted  *)
(* in ticks; the sub-terrain is square, as lines 156-162 construct it.     *)
(***************************************************************************)
MaxSide == 10
MaxGap == 3
MaxPlatform == 4

\* gap_size = 1.0, platform_size = 3.0 and horizontal_scale = 0.1 on a
\* 100 x 100 terrain, in ticks of 0.1.
HundredSquare ==
    [side |-> 100, horizontal_scale |-> 1, gap_size |-> 10, platform_size |-> 30]

GapInputs ==
    [side : 1..MaxSide, horizontal_scale : Scales, gap_size : 0..MaxGap,
     platform_size : 0..MaxPlatform] \cup {HundredSquare}

\* field[xlo:xhi, ylo:yhi] = value on a square field of n x n entries.
AssignSlice(field, n, xlo, xhi, ylo, yhi, value) ==
    [px \in DOMAIN field |->
        IF px[1] \in PySlice(xlo, xhi, n) /\ px[2] \in PySlice(ylo, yhi, n)
        THEN value ELSE field[px]]

\* gap_terrain(terrain, gap_size, platform_size), lines 319-335.
GapTerrain(field, in) ==
    LET gap_size == IntDiv(in.gap_size, in.horizontal_scale)
        platform_size == IntDiv(in.platform_size, in.horizontal_scale)
        center_x == in.side \div 2
        center_y == in.side \div 2
        x1 == (in.side - platform_size) \div 2
        x2 == x1 + gap_size
        y1 == (in.side - platform_size) \div 2
        y2 == y1 + gap_size
        moat == AssignSlice(field, in.side, center_x - x2, center_x + x2,
                            center_y - y2, center_y + y2, -1000)
    IN  AssignSlice(moat, in.side, center_x - x1, center_x + x1,
                    center_y - y1, center_y + y1, 0)

InitGap ==
    /\ gapIn \in GapInputs
    /\ gapField = [px \in (0..(gapIn.side - 1)) \X (0..(gapIn.side - 1)) |-> 0]
    /\ gapDone = FALSE

IdleGap ==
    /\ gapIn = Idle
    /\ gapField = Idle
    /\ gapDone = FALSE

\* The call of line 230 on the freshly constructed, flat sub-terrain.
CallGapTerrain ==
    /\ ~gapDone
    /\ gapDone' = TRUE
    /\ gapField' = GapTerrain(gapField, gapIn)
    /\ UNCHANGED gapIn
    /\ UNCHANGED <<initVars, makeVars, mapVars, meshVars, blockVars, imageVars>>

(***************************************************************************)
(* add_block.  Coordinates are counted in units of 0.05, so that the       *)
(* footprints of POTENTIAL_DIMS are (3, 3), (3, 6), (6, 3) and             *)
(* BLOCK_HEIGHT is 2; the rounding of the new vertices to float32 is not   *)
(* modelled.                                                               *)
(***************************************************************************)
BlockCorners == 8
BLOCK_HEIGHT == 2
MaxBaseVertices == 4
MaxCoord == 1
MaxMeshVertices == 20

POTENTIAL_DIMS == <<<<3, 3>>, <<3, 6>>, <<6, 3>>>>

\* The i-th smallest element of S, counting from 0.
Nth(S, i) == CHOOSE x \in S : Cardinality({y \in S : y < x}) = i

\* list(permutations(range(8), 3)), line 307: the ordered triples of
\* distinct indices in lexicographic order.
Permutations3 ==
    LET n == BlockCorners
        perm(k) ==
            LET a == k \div ((n - 1) * (n - 2))
                b == Nth((0..(n - 1)) \ {a}, (k % ((n - 1) * (n - 2))) \div (n - 2))
                c == Nth((0..(n - 1)) \ {a, b}, k % (n - 2))
            IN  <<a, b, c>>
    IN  [k \in 1..(n * (n - 1) * (n - 2)) |-> perm(k - 1)]

\* Lines 296-305: the corners of the rectangular prism.
NewVertices(x0, y0, s1, s2, h) ==
    <<<<x0, y0, 0>>, <<x0 + s1, y0, 0>>, <<x0, y0 + s2, 0>>, <<x0 + s1, y0 + s2, 0>>,
      <<x0, y0, h>>, <<x0 + s1, y0, h>>, <<x0, y0 + s2, h>>, <<x0 + s1, y0 + s2, h>>>>

\* Lines 307-311 without the vertex count added.
NewTrianglesNoOffset(nverts) == Permutations3

\* Lines 307-311: np.array(new_triangles, dtype=np.uint32) +
\* self.vertices.shape[0].  The indices of a mesh within the bounds stay
\* far below 2^32, where uint32 would wrap.
NewTriangles(nverts) ==
    [k \in DOMAIN Permutations3 |->
        <<Permutations3[k][1] + nverts, Permutations3[k][2] + nverts,
          Permutations3[k][3] + nverts>>]

\* A mesh as convert_heightfield_to_trimesh returns it: n vertices and a
\* strip of triangles over them.
BaseVertices(n) == [k \in 1..n |-> <<k - 1, 0, 0>>]
BaseTriangles(n) == [k \in 1..(IF n >= 3 THEN n - 2 ELSE 0) |-> <<k - 1, k, k + 1>>]

InitMesh ==
    /\ \E n \in 0..MaxBaseVertices :
          /\ vertices = BaseVertices(n)
          /\ triangles = BaseTriangles(n)
    /\ nBlocks = 0

IdleMesh ==
    /\ vertices = <<>>
    /\ triangles = <<>>
    /\ nBlocks = 0

\* add_block(x0, y0, s1, s2, h), lines 294-316.
AddBlock ==
    /\ Len(vertices) + BlockCorners <= MaxMeshVertices
    /\ nBlocks' = nBlocks + 1
    /\ \E x0 \in 0..MaxCoord, y0 \in 0..MaxCoord, d \in DOMAIN POTENTIAL_DIMS :
          /\ triangles' = triangles \o NewTriangles(Len(vertices))
          /\ vertices' = vertices \o
                NewVertices(x0, y0, POTENTIAL_DIMS[d][1], POTENTIAL_DIMS[d][2],
                            BLOCK_HEIGHT)
    /\ UNCHANGED <<initVars, makeVars, mapVars, gapVars, blockVars, imageVars>>

(***************************************************************************)
(* add_blocks.  Positions are counted in world units; a vertex height in   *)
(* units of 0.1; a block keeps the footprint of POTENTIAL_DIMS it drew.    *)
(* np.random.rand() is drawn from the unit lattice, so that x ranges over  *)
(* x0 .. x1 - 1.                                                           *)
(***************************************************************************)
CornerClearance == 3
DIST_THRESH == 1
MaxOrigin == 1
MaxBoxW == 6
MaxBoxH == 3
MaxSampled == 3
MaxArea == 4

\* The vertices of a mesh whose part above 0.1 spans the box from (o, o)
\* to (o + w, o + h); the base around it lies at height 0.1 or below.
MeshVertices(o, w, h) ==
    {<<o, o, 2>>, <<o + w, o, 2>>, <<o, o + h, 2>>, <<o + w, o + h, 2>>,
     <<o + w + 1, o + h + 1, 0>>, <<0, 0, 1>>}

\* A mesh with no vertex above 0.1.
FlatVertices == {<<0, 0, 0>>, <<1, 0, 1>>, <<0, 1, 0>>}

\* Lines 263-266: the bounding box of the vertices above 0.1.
BoundingBox(vs) ==
    LET high == {v \in vs : v[3] > 1} IN
    [x0 |-> Min({v[1] : v \in high}), x1 |-> Max({v[1] : v \in high}),
     y0 |-> Min({v[2] : v \in high}), y1 |-> Max({v[2] : v \in high})]

\* Lines 268-269: num_blocks = int(area * BLOCKS_PER_AREA).
NumBlocks(b) == (b.x1 - b.x0) * (b.y1 - b.y0)

\* Lines 276-278: what one pass of the loop can draw inside box b.
Samples(b) ==
    [x : b.x0..(IF b.x1 > b.x0 THEN b.x1 - 1 ELSE b.x0),
     y : b.y0..(IF b.y1 > b.y0 THEN b.y1 - 1 ELSE b.y0),
     d : DOMAIN POTENTIAL_DIMS]

SampleSpace ==
    [x : 0..(MaxOrigin + MaxBoxW + 1), y : 0..(MaxOrigin + MaxBoxH + MaxArea + 1),
     d : DOMAIN POTENTIAL_DIMS]

\* Line 279: the sample lies within 3 units of the box's minimum corner.
NearCorner(b, s) ==
    (s.x - b.x0) * (s.x - b.x0) + (s.y - b.y0) * (s.y - b.y0)
        < CornerClearance * CornerClearance

\* Lines 283-286 with the x column alone.
SeparationRejectsXOnly(bs, s) ==
    Min({bs[k][1] - s.x : k \in DOMAIN bs}) > DIST_THRESH

\* Lines 283-286: diff = blocks_arr - new_block_arr, and the test
\* min(min(diff[:, 0]), min(diff[:, 1])) > DIST_THRESH.
SeparationRejects(bs, s) ==
    Min({Min({bs[k][1] - s.x : k \in DOMAIN bs}),
         Min({bs[k][2] - s.y : k \in DOMAIN bs})}) > DIST_THRESH

\* Lines 279-289: what the loop does with sample s.
Verdict(b, bs, s) ==
    IF NearCorner(b, s) THEN "near_corner"
    ELSE IF bs # <<>> /\ SeparationRejects(bs, s) THEN "rejected"
    ELSE "accepted"

\* Line 281: new_block = (x, y, s1, s2, BLOCK_HEIGHT).
NewBlock(s) ==
    <<s.x, s.y, POTENTIAL_DIMS[s.d][1], POTENTIAL_DIMS[s.d][2], BLOCK_HEIGHT>>

NoSample == [verdict |-> "none"]
NoBox == [x0 |-> 0, x1 |-> 0, y0 |-> 0, y1 |-> 0]

\* The boxes of w x h on which the unit lattice decides as the continuous
\* draw does whether some position is 3 units or more from the corner:
\* either no position of the box is (w^2 + h^2 <= 9), or a lattice
\* position is.
LatticeExact(w, h) ==
    \/ w * w + h * h <= CornerClearance * CornerClearance
    \/ w >= 1 /\ h >= 1 /\
       (w - 1) * (w - 1) + (h - 1) * (h - 1) >= CornerClearance * CornerClearance
    \/ w = 0 \/ h = 0

BoxShapes ==
    {wh \in (0..MaxBoxW) \X (0..MaxBoxH) : LatticeExact(wh[1], wh[2])}

\* The boxes whose blocks number at most MaxArea.
SmallBoxShapes ==
    {wh \in (0..MaxArea) \X (0..MaxArea) :
        LatticeExact(wh[1], wh[2]) /\ wh[1] * wh[2] <= MaxArea}

InitBlocks(shapes) ==
    /\ blockVertices \in
          {MeshVertices(o, wh[1], wh[2]) : o \in 0..MaxOrigin, wh \in shapes}
              \cup {FlatVertices}
    /\ box = NoBox
    /\ num_blocks = 0
    /\ blocks = <<>>
    /\ sample = NoSample
    /\ placed = <<>>
    /\ blocksPc = "start"

IdleBlocks ==
    /\ blockVertices = {}
    /\ box = NoBox
    /\ num_blocks = 0
    /\ blocks = <<>>
    /\ sample = NoSample
    /\ placed = <<>>
    /\ blocksPc = "idle"

\* Lines 258-272: np.amin of an empty list raises ValueError.
BeginBlocks ==
    /\ blocksPc = "start"
    /\ IF {v \in blockVertices : v[3] > 1} = {}
       THEN /\ blocksPc' = "ValueError"
            /\ UNCHANGED <<box, num_blocks>>
       ELSE /\ box' = BoundingBox(blockVertices)
            /\ num_blocks' = NumBlocks(BoundingBox(blockVertices))
            /\ blocksPc' = "sampling"
    /\ UNCHANGED <<blockVertices, blocks, sample, placed>>
    /\ UNCHANGED <<initVars, makeVars, mapVars, gapVars, meshVars, imageVars>>

\* One pass of the while loop of lines 275-289 for block number
\* Len(blocks), drawing s.
Draw(s) ==
    /\ blocksPc = "sampling"
    /\ Len(blocks) < num_blocks
    /\ s \in Samples(box)
    /\ sample' = [x |-> s.x, y |-> s.y, d |-> s.d, verdict |-> Verdict(box, blocks, s)]
    /\ blocks' = IF Verdict(box, blocks, s) = "accepted"
                 THEN Append(blocks, NewBlock(s)) ELSE blocks
    /\ UNCHANGED <<blockVertices, box, num_blocks, placed, blocksPc>>
    /\ UNCHANGED <<initVars, makeVars, mapVars, gapVars, meshVars, imageVars>>

\* The same, for the first MaxSampled blocks only.
DrawCapped(s) == Len(blocks) < MaxSampled /\ Draw(s)

\* Lines 291-292: every block is handed to add_block.
PlaceBlocks ==
    /\ blocksPc = "sampling"
    /\ Len(blocks) = num_blocks
    /\ placed' = blocks
    /\ blocksPc' = "done"
    /\ UNCHANGED <<blockVertices, box, num_blocks, blocks, sample>>
    /\ UNCHANGED <<initVars, makeVars, mapVars, gapVars, meshVars, imageVars>>

(***************************************************************************)
(* The image-derived strategy, lines 80-84, and to_shape.  An array is     *)
(* held as its shape <<rows, columns>>; a padded array as its shape, the   *)
(* array it was padded from and the position of that array's first pixel   *)
(* in it.                                                                  *)
(***************************************************************************)
Upscale == 3
ImageTarget == 900
MaxImageSide == 302

\* Line 83: im.repeat(3, axis=0).repeat(3, axis=1).
Repeat(a) == <<Upscale * a[1], Upscale * a[2]>>

\* np.pad(a, ((top, bottom), (left, right)), mode="constant"): a negative
\* width raises ValueError.
NpPad(a, pads) ==
    IF \E k \in 1..2 : pads[k][1] < 0 \/ pads[k][2] < 0
    THEN [error |-> "ValueError"]
    ELSE [error |-> "none",
          shape |-> <<pads[1][1] + a[1] + pads[1][2], pads[2][1] + a[2] + pads[2][2]>>,
          inner |-> a,
          at |-> <<pads[1][1], pads[2][1]>>]

\* Lines 42-48: y_pad = y_ - y, x_pad = x_ - x and the widths
\* (pad // 2, pad // 2 + pad % 2) of each axis.
PadWidths(a, shape) ==
    LET y_pad == shape[1] - a[1]
        x_pad == shape[2] - a[2]
    IN <<<<y_pad \div 2, (y_pad \div 2) + (y_pad % 2)>>,
         <<x_pad \div 2, (x_pad \div 2) + (x_pad % 2)>>>>

\* Lines 41-50.
to_shape(a, shape) == NpPad(a, PadWidths(a, shape))

NoImage == [error |-> "not_loaded"]

ImageShapes == (1..MaxImageSide) \X (1..MaxImageSide)

InitImage ==
    /\ im \in ImageShapes
    /\ imageField = NoImage
    /\ imagePc = "start"

IdleImage ==
    /\ im = <<0, 0>>
    /\ imageField = NoImage
    /\ imagePc = "idle"

\* Lines 81-84 with cfg.map_path set: the alpha channel of the image is
\* upscaled and handed to to_shape, whose result replaces height_field_raw.
LoadImage ==
    /\ imagePc = "start"
    /\ imageField' = to_shape(Repeat(im), <<ImageTarget, ImageTarget>>)
    /\ imagePc' = IF to_shape(Repeat(im), <<ImageTarget, ImageTarget>>).error = "none"
                  THEN "done" ELSE "ValueError"
    /\ UNCHANGED im
    /\ UNCHANGED <<initVars, makeVars, mapVars, gapVars, meshVars, blockVars>>

(***************************************************************************)
(* The specifications, one per component.                                  *)
(***************************************************************************)
InitOfTerrain == InitTerrain /\ IdleMake /\ IdleMap /\ IdleGap /\ IdleMesh /\ IdleBlocks
    /\ IdleImage
InitNext == Construct
SpecInit == InitOfTerrain /\ [][InitNext]_vars

InitOfMake == InitMake /\ IdleTerrain /\ IdleMap /\ IdleGap /\ IdleMesh /\ IdleBlocks
    /\ IdleImage
MakeNext == MakeTerrain
SpecMake == InitOfMake /\ [][MakeNext]_vars

InitOfMap == InitMap /\ IdleTerrain /\ IdleMake /\ IdleGap /\ IdleMesh /\ IdleBlocks
    /\ IdleImage
MapNext == AddTerrainToMap
SpecMap == InitOfMap /\ [][MapNext]_vars

InitOfGap == InitGap /\ IdleTerrain /\ IdleMake /\ IdleMap /\ IdleMesh /\ IdleBlocks
    /\ IdleImage
GapNext == CallGapTerrain
SpecGap == InitOfGap /\ [][GapNext]_vars

InitOfMesh == InitMesh /\ IdleTerrain /\ IdleMake /\ IdleMap /\ IdleGap /\ IdleBlocks
    /\ IdleImage
MeshNext == AddBlock
SpecMesh == InitOfMesh /\ [][MeshNext]_vars

InitOfBlocks ==
    InitBlocks(BoxShapes) /\ IdleTerrain /\ IdleMake /\ IdleMap /\ IdleGap /\ IdleMesh
        /\ IdleImage
BlocksNext == BeginBlocks \/ (\E s \in SampleSpace : DrawCapped(s)) \/ PlaceBlocks
SpecBlocks == InitOfBlocks /\ [][BlocksNext]_vars

\* A pass of the loop that draws a sample the loop accepts.
AcceptingDraw ==
    \E s \in SampleSpace : Verdict(box, blocks, s) = "accepted" /\ Draw(s)

\* add_blocks on the boxes of at most MaxArea blocks, run to its end.  The
\* loop keeps drawing, and as every position of the box and every footprint
\* keeps being drawn, a sample the loop accepts is drawn whenever there
\* keeps being one.
InitOfSmallBlocks ==
    InitBlocks(SmallBoxShapes) /\ IdleTerrain /\ IdleMake /\ IdleMap /\ IdleGap
        /\ IdleMesh /\ IdleImage
SmallBlocksNext == BeginBlocks \/ (\E s \in SampleSpace : Draw(s)) \/ PlaceBlocks
SpecBlocksFair ==
    /\ InitOfSmallBlocks
    /\ [][SmallBlocksNext]_vars
    /\ WF_vars(SmallBlocksNext)
    /\ SF_vars(AcceptingDraw)

InitOfImage ==
    InitImage /\ IdleTerrain /\ IdleMake /\ IdleMap /\ IdleGap /\ IdleMesh
        /\ IdleBlocks
ImageNext == LoadImage
SpecImage == InitOfImage /\ [][ImageNext]_vars

(***************************************************************************)
(* C1                                                                      *)
(***************************************************************************)
Priority == <<"image", "curriculum", "selected", "random">>

Applicable(c, s) ==
    CASE s = "image" -> c.map_path
      [] s = "curriculum" -> c.curriculum
      [] s = "selected" -> c.selected
      [] s = "random" -> TRUE

FirstApplicable(c) ==
    Priority[Min({k \in 1..Len(Priority) : Applicable(c, Priority[k])})]

\* C1 as stated: every construction runs exactly one population strategy,
\* the first applicable one in the order image, curriculum, selected,
\* random.
C1_EveryConstructionRunsOne ==
    constructed => strategies = <<FirstApplicable(cfg)>>

\* C1 amended: a construction whose mesh type is neither "none" nor "plane"
\* runs exactly one population strategy, the first applicable one in the
\* order image, curriculum, selected, random; with mesh type "none" or
\* "plane" the constructor returns before any strategy runs.
C1_OneStrategyUnlessFlat ==
    constructed =>
        IF cfg.mesh_type \in {"none", "plane"}
        THEN strategies = <<>>
        ELSE strategies = <<FirstApplicable(cfg)>>

\* A heightfield or trimesh construction with both the curriculum and the
\* selected flag set and no image has run the curriculum strategy.
C1_Witness ==
    /\ constructed
    /\ cfg.mesh_type = "trimesh"
    /\ ~cfg.map_path /\ cfg.curriculum /\ cfg.selected
    /\ strategies = <<"curriculum">>

(***************************************************************************)
(* C2                                                                      *)
(***************************************************************************)
BranchOfThreshold ==
    [k \in Thresholds |->
        CASE k = 0 -> "slope"
          [] k = 1 -> "rough_slope"
          [] k \in {2, 3} -> "stairs"
          [] k = 4 -> "discrete_obstacles"
          [] k = 5 -> "cell_obstacles"
          [] k = 6 -> "stepping_stones"
          [] k = 7 -> "gap"]

NonDecreasing(props) == \A k \in Thresholds \ {0} : props[k - 1] <= props[k]

ExpectedBranch(choice, props) ==
    LET below == {k \in Thresholds : choice < props[k]} IN
    IF below = {} THEN "pit" ELSE BranchOfThreshold[Min(below)]

\* C2: for every choice and every non-decreasing table of 8 cumulative
\* thresholds, make_terrain runs exactly one branch: that of the first
\* threshold choice is strictly below, and the pit branch when choice is
\* strictly below none.
C2_FirstThresholdBranch ==
    (mt.called /\ NonDecreasing(proportions)) =>
        /\ Len(mt.branches) = 1
        /\ mt.branches[1].branch = ExpectedBranch(mt.choice, proportions)

\* make_terrain ran the upward stairs: choice is not below threshold 2 and
\* is below threshold 3.
C2_Witness ==
    /\ mt.called
    /\ NonDecreasing(proportions)
    /\ mt.choice >= proportions[2]
    /\ mt.choice < proportions[3]
    /\ mt.branches[1].branch = "stairs"
    /\ mt.branches[1].args.step_height > 0

\* make_terrain ran the pit branch with choice at or above every threshold.
C2_WitnessPit ==
    /\ mt.called
    /\ \A k \in Thresholds : mt.choice >= proportions[k]
    /\ mt.branches[1].branch = "pit"

(***************************************************************************)
(* C7                                                                      *)
(***************************************************************************)
ParameterNames ==
    {"slope", "step_height", "discrete_obstacles_height", "stepping_stones_size",
     "stone_distance", "gap_size", "pit_depth"}

TwoCallsOrdered == mt.called /\ mtPrev.called /\ mtPrev.difficulty <= mt.difficulty

\* C7 as stated: of two make_terrain calls, the one with the greater or
\* equal difficulty derives a greater or equal value of every parameter.
C7_AllNonDecreasing ==
    TwoCallsOrdered => \A n \in ParameterNames : mtPrev.params[n] <= mt.params[n]

\* C7 amended: for difficulties d1 <= d2 in [0,1], slope, step_height,
\* discrete_obstacles_height, stone_distance, gap_size and pit_depth are at
\* d2 greater than or equal to their values at d1, and stepping_stones_size
\* = 1.5 * (1.05 - difficulty) is at d2 less than or equal to its value at
\* d1 (strictly less when d1 < d2).
C7_MonotoneExceptStones ==
    TwoCallsOrdered =>
        /\ \A n \in ParameterNames \ {"stepping_stones_size"} :
              mtPrev.params[n] <= mt.params[n]
        /\ mtPrev.params.stepping_stones_size >= mt.params.stepping_stones_size
        /\ mtPrev.difficulty < mt.difficulty =>
              mtPrev.params.stepping_stones_size > mt.params.stepping_stones_size

\* Two calls, the first at difficulty 0 and the second at a greater one.
C7_Witness ==
    /\ TwoCallsOrdered
    /\ mtPrev.difficulty = 0
    /\ mt.difficulty = DiffDen
    /\ mt.params.stone_distance > mtPrev.params.stone_distance

(***************************************************************************)
(* C3                                                                      *)
(***************************************************************************)
InBorder(c, px) ==
    \/ px[1] < Border(c) \/ px[1] >= TotRows(c) - Border(c)
    \/ px[2] < Border(c) \/ px[2] >= TotCols(c) - Border(c)

\* C3: after any sequence of add_terrain_to_map calls with
\* 0 <= row < num_rows and 0 <= col < num_cols, every entry of the composite
\* heightfield within `border` pixels of an edge is 0.
C3_BorderStaysZero ==
    \A px \in DOMAIN height_field_raw :
        InBorder(mapCfg, px) => height_field_raw[px] = 0

\* Two calls have been made, the last one wrote its sub-terrain, the border
\* is not empty and the interior pixel in the corner next to it holds a peak.
C3_Witness ==
    /\ nAdds >= 2
    /\ lastAdd.outcome = "ok"
    /\ Border(mapCfg) > 0
    /\ height_field_raw[<<Border(mapCfg), Border(mapCfg)>>] = PeakRaw

(***************************************************************************)
(* C5                                                                      *)
(***************************************************************************)
\* The pixels of the sub-terrain from x1 up to x2 and from y1 up to y2: the
\* window of +-1 metre around the local centre.
CentreWindow(c, t) ==
    {px \in DOMAIN t.height_field_raw :
        /\ WindowLow(c.env_length, t) <= px[1] /\ px[1] < WindowHigh(c.env_length, t)
        /\ WindowLow(c.env_width, t) <= px[2] /\ px[2] < WindowHigh(c.env_width, t)}

\* C5: after add_terrain_to_map(terrain, row, col), env_origins[row, col] is
\* ((row + 0.5) * env_length, (col + 0.5) * env_width, z) with z the maximum
\* raw height over the window of +-1 metre around the sub-terrain's centre
\* times vertical_scale, so that a single peak anywhere in the window
\* determines z.
C5_OriginOverCentreWindow ==
    (lastAdd.outcome = "ok" /\ CentreWindow(mapCfg, lastAdd.terrain) # {}) =>
        env_origins[<<lastAdd.row, lastAdd.col>>] =
            <<(2 * lastAdd.row + 1) * mapCfg.env_length,
              (2 * lastAdd.col + 1) * mapCfg.env_width,
              Max({lastAdd.terrain.height_field_raw[px] :
                      px \in CentreWindow(mapCfg, lastAdd.terrain)})
                  * lastAdd.terrain.vertical_scale>>

(***************************************************************************)
(* C4                                                                      *)
(***************************************************************************)
\* Whether pixel px lies in the square of the given side, widened by margin
\* on every side, centred on a terrain of n x n pixels.
InCentredSquare(px, n, side, margin) ==
    LET lo == n \div 2 - side \div 2 - margin
        hi == n \div 2 - side \div 2 + side + margin
    IN  /\ lo <= px[1] /\ px[1] < hi
        /\ lo <= px[2] /\ px[2] < hi

\* C4: after gap_terrain on a flat terrain the square of side platform_size
\* (in pixels) centred on the terrain is at 0, and the ring around it out to
\* gap_size + half of platform_size pixels from the centre is at -1000.
\* Stated for the terrains wide enough to hold the platform and the ring.
C4_IslandAndMoat ==
    LET gap == IntDiv(gapIn.gap_size, gapIn.horizontal_scale)
        platform == IntDiv(gapIn.platform_size, gapIn.horizontal_scale)
    IN  (gapDone /\ platform >= 1 /\ platform + 2 * gap <= gapIn.side) =>
            \A px \in DOMAIN gapField :
                /\ InCentredSquare(px, gapIn.side, platform, 0) => gapField[px] = 0
                /\ (/\ InCentredSquare(px, gapIn.side, platform, gap)
                    /\ ~InCentredSquare(px, gapIn.side, platform, 0)) =>
                        gapField[px] = -1000

\* The same on the 100 x 100 terrain alone: the central 30-pixel square is
\* 0 and the 10-pixel ring outside it is -1000.
C4_HundredSquare ==
    (gapDone /\ gapIn = HundredSquare) =>
        /\ \A px \in (35..64) \X (35..64) : gapField[px] = 0
        /\ \A px \in ((25..74) \X (25..74)) \ ((35..64) \X (35..64)) :
              gapField[px] = -1000

\* What lines 330-335 leave on the 100 x 100 terrain: 0 on the central
\* 70-pixel square, -1000 on the 10-pixel ring around that, 0 outside.
C4_HundredSquareAsCoded ==
    (gapDone /\ gapIn = HundredSquare) =>
        \A px \in DOMAIN gapField :
            gapField[px] =
                IF px \in (15..84) \X (15..84) THEN 0
                ELSE IF px \in (5..94) \X (5..94) THEN -1000
                ELSE 0

(***************************************************************************)
(* C6                                                                      *)
(***************************************************************************)
\* An add_block step appended 8 vertices and n index triples and left what
\* the buffers held in place; the new triples are, each once, the ordered
\* triples of distinct local indices 0..7 offset by the vertex count before
\* the step.
BlockAppended(n) ==
    /\ Len(vertices') = Len(vertices) + 8
    /\ SubSeq(vertices', 1, Len(vertices)) = vertices
    /\ Len(triangles') = Len(triangles) + n
    /\ SubSeq(triangles', 1, Len(triangles)) = triangles
    /\ {triangles'[k] : k \in (Len(triangles) + 1)..Len(triangles')} =
          {<<t[1] + Len(vertices), t[2] + Len(vertices), t[3] + Len(vertices)>> :
              t \in {u \in (0..7) \X (0..7) \X (0..7) :
                        u[1] # u[2] /\ u[1] # u[3] /\ u[2] # u[3]}}

\* C6 as stated: each add_block call appends exactly 8 vertices and exactly
\* 56 index triples, the ordered 3-element permutations of the new
\* vertices' local indices offset by the vertex count before the call, and
\* changes or removes nothing already in the buffers.
C6_AppendsEightAnd56 == [][nBlocks' = nBlocks + 1 => BlockAppended(56)]_vars

\* C6 amended: each add_block call appends exactly 8 vertices and exactly
\* 336 (8 * 7 * 6) index triples, the ordered 3-element permutations of the
\* new vertices' local indices offset by the vertex count before the call,
\* and changes or removes nothing already in the buffers.
C6_AppendsEightAnd336 == [][nBlocks' = nBlocks + 1 => BlockAppended(336)]_vars

\* Two blocks have been added to a mesh that held vertices and triangles.
C6_Witness ==
    /\ nBlocks = 2
    /\ Len(vertices) > 16
    /\ Len(triangles) > 672
    /\ triangles[Len(triangles)] =
          <<Len(vertices) - 1, Len(vertices) - 2, Len(vertices) - 3>>

(***************************************************************************)
(* C8                                                                      *)
(***************************************************************************)
\* C8: add_blocks terminates for every bounding box: provided every
\* position of the box and every footprint keeps being sampled, each of the
\* num_blocks blocks is eventually accepted and the blocks are placed.
C8_Terminates == <>(blocksPc \in {"done", "ValueError"})

\* The same as a property of the states: while a block is still to be
\* accepted, some sample of the box is accepted.
C8_SomeSampleAccepted ==
    (blocksPc = "sampling" /\ Len(blocks) < num_blocks) =>
        \E s \in Samples(box) : Verdict(box, blocks, s) = "accepted"

(***************************************************************************)
(* C9                                                                      *)
(***************************************************************************)
\* The blocks accepted before the last sample was drawn.
BlocksBefore ==
    IF sample.verdict = "accepted" THEN SubSeq(blocks, 1, Len(blocks) - 1) ELSE blocks

Drawn == sample.verdict \in {"near_corner", "rejected", "accepted"}

\* C9 as stated: a candidate at least 3 units from the box's minimum corner
\* is rejected if any one coordinate-wise delta (x or y, previous minus
\* candidate as line 285 takes it) to a previously accepted block exceeds
\* 1.0, and is accepted otherwise.
C9_RejectedIfAnyDeltaExceeds ==
    (Drawn /\ sample.verdict # "near_corner") =>
        (sample.verdict = "rejected" <=>
            \E k \in DOMAIN BlocksBefore :
                \/ BlocksBefore[k][1] - sample.x > DIST_THRESH
                \/ BlocksBefore[k][2] - sample.y > DIST_THRESH)

\* C9 amended: a candidate at least 3 units from the box's minimum corner
\* is rejected if a block has been accepted before and every signed
\* coordinate-wise delta, previous minus candidate, in x and in y and to
\* every previously accepted block, exceeds 1.0 (the smallest of them
\* does); it is accepted otherwise.
C9_RejectedIfEveryDeltaExceeds ==
    (Drawn /\ sample.verdict # "near_corner") =>
        /\ sample.verdict \in {"rejected", "accepted"}
        /\ sample.verdict = "rejected" <=>
              /\ BlocksBefore # <<>>
              /\ \A k \in DOMAIN BlocksBefore :
                    /\ BlocksBefore[k][1] - sample.x > DIST_THRESH
                    /\ BlocksBefore[k][2] - sample.y > DIST_THRESH
        /\ sample.verdict = "accepted" =>
              blocks[Len(blocks)] = NewBlock(sample)

\* A candidate 3 units or more from the corner was rejected: both blocks
\* accepted before lie more than 1.0 beyond it in x and in y.
C9_Witness ==
    /\ Drawn
    /\ sample.verdict = "rejected"
    /\ Len(blocks) = 2
    /\ \A k \in 1..2 :
          /\ blocks[k][1] - sample.x > DIST_THRESH
          /\ blocks[k][2] - sample.y > DIST_THRESH

\* A candidate was accepted although the first block accepted before lies
\* more than 1.0 beyond it in x and in y: the second does not in x.
C9_WitnessAccepted ==
    /\ Drawn
    /\ sample.verdict = "accepted"
    /\ Len(blocks) = 3
    /\ blocks[1][1] - sample.x > DIST_THRESH
    /\ blocks[1][2] - sample.y > DIST_THRESH
    /\ blocks[2][1] - sample.x <= DIST_THRESH

(***************************************************************************)
(* C10                                                                     *)
(***************************************************************************)
\* The scaled image lies in the middle of the field along axis k: the pad
\* before it is at most the pad after it, and they differ by at most 1.
PaddedCentrally(k) ==
    LET before == imageField.at[k]
        after == imageField.shape[k] - imageField.at[k] - imageField.inner[k]
    IN before <= after /\ after <= before + 1

\* C10: for every image size the 3x-upscaled image is brought to exactly
\* 900 x 900: padded centrally (leading pad <= trailing pad, differing by
\* at most 1) along an axis where it is smaller than the target, cropped
\* along an axis where it is larger.
C10_AlwaysTargetShape ==
    imagePc \in {"done", "ValueError"} =>
        /\ imageField.error = "none"
        /\ imageField.shape = <<ImageTarget, ImageTarget>>
        /\ \A k \in 1..2 :
              Repeat(im)[k] <= ImageTarget =>
                  imageField.inner[k] = Repeat(im)[k] /\ PaddedCentrally(k)

\* What the code does: an upscaled image that fits the target along both
\* axes is padded centrally to 900 x 900; one that is larger along an axis
\* makes np.pad raise ValueError.
C10_PadsOrRaises ==
    imagePc \in {"done", "ValueError"} =>
        IF \A k \in 1..2 : Repeat(im)[k] <= ImageTarget
        THEN /\ imagePc = "done"
             /\ imageField.shape = <<ImageTarget, ImageTarget>>
             /\ imageField.inner = Repeat(im)
             /\ \A k \in 1..2 : PaddedCentrally(k)
        ELSE imagePc = "ValueError" /\ imageField = [error |-> "ValueError"]

====
